---- MODULE Spec2Model ----
(***************************************************************************)
(* A model of simple-backup (src/index.ts): one backup run is              *)
(*   loadConfig -> waitForPostgres -> runPgDump -> uploadToS3              *)
(*              -> cleanupOldBackups -> process.exit.                      *)
(* The object store and the clock are shared by the runs; everything else  *)
(* is local to a run and kept in run[r].  Every await of the source is a   *)
(* step of its own.  Times are in milliseconds, as in the source.          *)
(*                                                                         *)
(* An object key is [ts, gz]: ts is the rank of the key in the store's key *)
(* order (for a backup, the instant of generateS3Key), gz says whether the *)
(* key ends with ".sql.gz".                                                *)
(***************************************************************************)
EXTENDS Integers, Sequences, FiniteSets, TLC

VARIABLES now, store, run

vars == <<now, store, run>>

Runs == {1, 2}

\* ------------------------------------------------------------------ bounds
\* Objects already under the prefix have the key ranks 1..MaxOld (older than
\* the run) or FarFuture (a key that sorts after every key a run can make).
MaxOld == 4
\* maxCount (BACKUP_MAX_COUNT) ranges over -1..MaxRetention.
MaxRetention == 4
\* The list cap: maxKeys is 1000 in the source (src/index.ts:211, 519); the
\* model lists at most MaxKeys objects so that a truncated listing is reachable.
MaxKeys == 4
\* The byte length of a dump is 0..MaxDumpBytes.
MaxDumpBytes == 1
\* The longest probe attempt (connect and SELECT 1), in ms: the source sets no
\* timeout on it.
MaxAttemptMs == 31000
\* A shorter probe attempt, a timer's overshoot, a slow close, in ms.
ShortMs == 500
\* The longest connection locator (DATABASE_URL), in characters.
MaxLocatorLen == 3
\* The time between the first and the last key of the key-order check: up to
\* MaxDayTicks days and MaxMsTicks milliseconds.
MaxDayTicks == 2
MaxMsTicks == 3
\* The milliseconds that pass while two runs overlap.
MaxOverlapMs == 1

StartTime == MaxOld + 1
FarFuture == StartTime + 1000000

AttemptMs == {0, ShortMs, MaxAttemptMs}
LagMs == {0, ShortMs}
CloseMs == {0, ShortMs}

\* PG_CONNECT_TIMEOUT values of a whole run, and of the prober on its own.
RunTimeouts == {0, 1}
ProberTimeouts == {-1, 0, 1, 3, 70}

\* ---------------------------------------------------------------- helpers
Min(a, b) == IF a < b THEN a ELSE b

Max(a, b) == IF a > b THEN a ELSE b

RECURSIVE Pow2(_)
Pow2(n) == IF n <= 0 THEN 1 ELSE 2 * Pow2(n - 1)

NoKey == [ts |-> -1, gz |-> FALSE]

\* a.key.localeCompare(b.key) < 0
KeyLess(a, b) == a.ts < b.ts \/ (a.ts = b.ts /\ a.gz /\ ~b.gz)

LeastKey(S) == CHOOSE k \in S : \A o \in S : o = k \/ KeyLess(k, o)

RECURSIVE Ascending(_)
Ascending(S) ==
    IF S = {} THEN <<>> ELSE <<LeastKey(S)>> \o Ascending(S \ {LeastKey(S)})

Range(s) == {s[j] : j \in 1..Len(s)}

\* ------------------------------------------------------------ waitForPostgres
InitialDelay == 1000

maxDelay == 30000

Deadline(t, timeoutSeconds) == t + timeoutSeconds * 1000

\* A sleep that forgets the time left to the deadline.
SleepMsPastDeadline(delay, deadline, t) == Min(delay, maxDelay)

SleepMs(delay, deadline, t) == Min(Min(delay, deadline - t), maxDelay)

\* A doubling that forgets the cap.
NextDelayUncapped(delay) == delay * 2

NextDelay(delay) == Min(delay * 2, maxDelay)

WaitForPostgres(r) ==
    /\ run[r].pc = "wait"
    /\ run' = [run EXCEPT ![r].pc = "loop",
                          ![r].deadline = Deadline(now, run[r].timeoutSeconds),
                          ![r].delay = InitialDelay,
                          ![r].attempt = 0,
                          ![r].startTime = now]
    /\ UNCHANGED <<now, store>>

\* while (Date.now() < deadline) { attempt++ ... } throw new Error(...)
LoopCheck(r) ==
    /\ run[r].pc = "loop"
    /\ IF now < run[r].deadline
         THEN run' = [run EXCEPT ![r].pc = "try",
                                 ![r].attempt = @ + 1,
                                 ![r].busy = 0]
         ELSE run' = [run EXCEPT ![r].pc = "threw", ![r].err = "timeout"]
    /\ UNCHANGED <<now, store>>

\* try { sql = new Bun.SQL(url); await sql`SELECT 1`; return } catch { ... }
\* up to the sleep: the attempt takes d ms and succeeds or fails; when the
\* constructor itself throws, sql stays undefined and no connection exists.
Probe(r) ==
    /\ run[r].pc = "try"
    /\ \E d \in AttemptMs, ok \in BOOLEAN, constructed \in BOOLEAN :
         /\ ~constructed => (d = 0 /\ ~ok)
         /\ now' = now + d
         /\ run' = [run EXCEPT
               ![r].sql = constructed,
               ![r].open = IF constructed THEN @ + 1 ELSE @,
               ![r].busy = @ + d,
               ![r].pc = IF ok \/ now' >= run[r].deadline THEN "finally" ELSE "sleep",
               ![r].after = IF ok THEN "return"
                            ELSE IF now' >= run[r].deadline THEN "throw" ELSE @]
    /\ UNCHANGED store

\* await Bun.sleep(sleepMs); delay = Math.min(delay * 2, maxDelay)
Sleep(r) ==
    /\ run[r].pc = "sleep"
    /\ \E lag \in LagMs :
         LET sleepMs == SleepMs(run[r].delay, run[r].deadline, now) IN
         /\ now' = now + sleepMs + lag
         /\ run' = [run EXCEPT
               ![r].pc = "finally",
               ![r].after = "loop",
               ![r].busy = @ + lag,
               ![r].sleeps = @ + 1,
               ![r].lastSleep = [delay |-> run[r].delay,
                                 remaining |-> run[r].deadline - now,
                                 ms |-> sleepMs],
               ![r].delay = NextDelay(@)]
    /\ UNCHANGED store

\* A prober whose close sits in the success path only, not in a finally.
CloseCalledOnReturnOnly(sql, after) == sql /\ after = "return"

\* sql?.close(...) in the finally block: called on every path out of the try,
\* whenever the constructor has returned a client.
CloseCalled(sql, after) == sql

\* finally { try { await sql?.close({ timeout: 1 }) } catch {} }: a close that
\* throws is ignored, and may leave the connection open.
Close(r) ==
    /\ run[r].pc = "finally"
    /\ \E d \in CloseMs, closed \in BOOLEAN :
         /\ ~CloseCalled(run[r].sql, run[r].after) => (d = 0 /\ ~closed)
         /\ now' = now + d
         /\ run' = [run EXCEPT
               ![r].sql = FALSE,
               ![r].open = IF closed THEN @ - 1 ELSE @,
               ![r].leaked = IF CloseCalled(run[r].sql, run[r].after) /\ ~closed
                               THEN @ + 1 ELSE @,
               ![r].busy = @ + d,
               ![r].pc = CASE run[r].after = "loop" -> "loop"
                           [] run[r].after = "return" -> "dump"
                           [] OTHER -> "threw",
               ![r].err = IF run[r].after = "throw" THEN "timeout" ELSE @]
    /\ UNCHANGED store

\* ------------------------------------------------------------------ runPgDump
\* A run that does not test the length of the dump.
EmptyDumpNever(byteLength) == FALSE

\* main's test of the dump: dumpData.byteLength === 0
EmptyDump(byteLength) == byteLength = 0

\* if (dumpData.byteLength === 0) throw new Error("pg_dump produced empty output")
AfterDump(byteLength) == IF EmptyDump(byteLength) THEN "threw" ELSE "upload"

\* The characters of a locator: "p" stands for every character that means
\* nothing to a shell; the space, & and ; are shell syntax.
LocatorChars == {"p", "@", ":", " ", "&", ";"}

\* The locators of the model: the strings of 1..MaxLocatorLen characters.
Locators == UNION {[1..n -> LocatorChars] : n \in 1..MaxLocatorLen}

\* A locator with nothing but a scheme, credentials and a host.
PlainLocator == <<"p", ":", "p", "@", "p">>

\* $`pg_dump ${{ raw: databaseUrl }} | gzip`: with raw the text of the locator
\* goes into the command line unescaped ("pg_dump" and "gzip" stand as one
\* character each).
CommandLine(databaseUrl) ==
    <<"pg_dump", " ">> \o databaseUrl \o <<" ", "|", " ", "gzip">>

\* The shell's reading of a command line: the words of its first command; a
\* space ends a word, and | & ; end the command.
RECURSIVE Words(_, _, _)
Words(text, word, words) ==
    LET done == IF word = <<>> THEN words ELSE Append(words, word) IN
    IF text = <<>> \/ Head(text) \in {"|", "&", ";"} THEN done
    ELSE IF Head(text) = " " THEN Words(Tail(text), <<>>, done)
    ELSE Words(Tail(text), Append(word, Head(text)), words)

\* The arguments pg_dump is started with: the words after the command's name.
PgDumpArgv(databaseUrl) == Tail(Words(CommandLine(databaseUrl), <<>>, <<>>))

\* The shell pipeline throws, or returns its output; main then tests the length.
RunPgDump(r) ==
    /\ run[r].pc = "dump"
    /\ \/ run' = [run EXCEPT ![r].pc = "threw", ![r].err = "dump",
                             ![r].argv = PgDumpArgv(run[r].databaseUrl),
                             ![r].ops = Append(@, [op |-> "dump", key |-> NoKey, ok |-> FALSE])]
       \/ \E n \in 0..MaxDumpBytes :
            run' = [run EXCEPT
               ![r].dumpData = n,
               ![r].argv = PgDumpArgv(run[r].databaseUrl),
               ![r].ops = Append(@, [op |-> "dump", key |-> NoKey, ok |-> TRUE]),
               ![r].pc = AfterDump(n),
               ![r].err = IF EmptyDump(n) THEN "empty" ELSE @]
    /\ UNCHANGED <<now, store>>

\* ------------------------------------------------------------ generateS3Key
\* The text of a key, character by character. An instant is a day number
\* (days since 1970-01-01) and the milliseconds of that day; the model's time
\* t stands for the instant t ms after an epoch.
Instant(epoch, t) ==
    LET total == epoch.ms + t
    IN [day |-> epoch.day + total \div (24 * 3600 * 1000),
        ms |-> total % (24 * 3600 * 1000)]

\* The date of a day number in the proleptic Gregorian calendar, as Date does.
CivilFromDays(days) ==
    LET z == days + 719468
        era == z \div 146097
        doe == z - era * 146097
        yoe == (doe - doe \div 1460 + doe \div 36524 - doe \div 146096) \div 365
        doy == doe - (365 * yoe + yoe \div 4 - yoe \div 100)
        mp == (5 * doy + 2) \div 153
        d == doy - (153 * mp + 2) \div 5 + 1
        m == IF mp < 10 THEN mp + 3 ELSE mp - 9
    IN [year |-> yoe + era * 400 + (IF m <= 2 THEN 1 ELSE 0), month |-> m, day |-> d]

Digit(n) == <<"0", "1", "2", "3", "4", "5", "6", "7", "8", "9">>[n + 1]

\* A number written with the digits it needs and no leading zero.
RECURSIVE PadNothing(_, _)
PadNothing(n, width) ==
    IF n < 10 THEN <<Digit(n)>>
    ELSE Append(PadNothing(n \div 10, width), Digit(n % 10))

\* The last width decimal digits of n, with leading zeros.
RECURSIVE Pad(_, _)
Pad(n, width) ==
    IF width = 0 THEN <<>>
    ELSE Append(Pad(n \div 10, width - 1), Digit(n % 10))

\* toISOString writes the years 0..9999 with four digits, every other year
\* with a sign and six digits.
IsoYear(year) ==
    IF year \in 0..9999 THEN Pad(year, 4)
    ELSE <<IF year < 0 THEN "-" ELSE "+">> \o Pad(IF year < 0 THEN -year ELSE year, 6)

\* Date.prototype.toISOString: YYYY-MM-DDTHH:mm:ss.sssZ
toISOString(inst) ==
    LET date == CivilFromDays(inst.day)
        s == inst.ms \div 1000
    IN IsoYear(date.year) \o <<"-">> \o Pad(date.month, 2) \o <<"-">> \o Pad(date.day, 2)
       \o <<"T">> \o Pad(s \div 3600, 2) \o <<":">> \o Pad((s \div 60) % 60, 2)
       \o <<":">> \o Pad(s % 60, 2) \o <<".">> \o Pad(inst.ms % 1000, 3) \o <<"Z">>

\* .replace(/[:.]/g, "-")
Replace(str) == [j \in DOMAIN str |-> IF str[j] \in {":", "."} THEN "-" ELSE str[j]]

\* BACKUP_PREFIX, the same for every key of a run.
Prefix == <<"b", "/">>

\* `${prefix}${timestamp}.sql.gz`, for the key the model writes [ts |-> t, gz |-> TRUE]
KeyText(epoch, t) ==
    Prefix \o Replace(toISOString(Instant(epoch, t))) \o <<".", "s", "q", "l", ".", "g", "z">>

\* The UTF-16 code unit of a character of a key.
CodeUnit(c) ==
    CASE c = "+" -> 43 [] c = "-" -> 45 [] c = "." -> 46 [] c = "/" -> 47
      [] c = ":" -> 58 [] c = "T" -> 84 [] c = "Z" -> 90
      [] c = "b" -> 98 [] c = "g" -> 103 [] c = "l" -> 108 [] c = "q" -> 113
      [] c = "s" -> 115 [] c = "z" -> 122
      [] OTHER -> 48 + (CHOOSE n \in 0..9 : Digit(n) = c)

\* The rank of a character in the collation localeCompare uses (root order:
\* punctuation, symbols, digits, letters; case is no primary difference).
CollationRank(c) ==
    CASE c = "-" -> 1 [] c = ":" -> 2 [] c = "." -> 3 [] c = "/" -> 4 [] c = "+" -> 5
      [] c = "b" -> 21 [] c = "g" -> 22 [] c = "l" -> 23 [] c = "q" -> 24
      [] c = "s" -> 25 [] c = "T" -> 26 [] c \in {"z", "Z"} -> 27
      [] OTHER -> 10 + (CHOOSE n \in 0..9 : Digit(n) = c)

\* The comparison of two strings given as the weights of their characters:
\* the first difference decides, and a proper prefix comes first.
Compare(a, b) ==
    LET D == {j \in 1..Min(Len(a), Len(b)) : a[j] # b[j]}
    IN IF D = {}
         THEN (IF Len(a) < Len(b) THEN -1 ELSE IF Len(a) > Len(b) THEN 1 ELSE 0)
         ELSE LET j == CHOOSE k \in D : \A l \in D : k <= l
              IN IF a[j] < b[j] THEN -1 ELSE 1

\* a < b, the order of the keys in the store.
LexLess(a, b) ==
    Compare([j \in DOMAIN a |-> CodeUnit(a[j])], [j \in DOMAIN b |-> CodeUnit(b[j])]) < 0

\* a.localeCompare(b)
localeCompare(a, b) ==
    Compare([j \in DOMAIN a |-> CollationRank(a[j])],
            [j \in DOMAIN b |-> CollationRank(b[j])])

\* ------------------------------------------------------------------- uploadToS3
\* prefix + new Date().toISOString().replace(/[:.]/g, "-") + ".sql.gz"
generateS3Key(t) == [ts |-> t, gz |-> TRUE]

\* An upload that tries the put again when it fails.
AfterUploadRetry(ok) == IF ok THEN "list" ELSE "upload"

\* An upload that logs the error of the put and does not rethrow it.
AfterUploadIgnoringError(ok) == "list"

\* await uploadToS3(...): an error of the put is rethrown, and main goes no further.
AfterUpload(ok) == IF ok THEN "list" ELSE "threw"

UploadToS3(r) ==
    /\ run[r].pc = "upload"
    /\ LET s3Key == generateS3Key(now) IN
       \E ok \in BOOLEAN :
         /\ store' = IF ok THEN store \cup {s3Key} ELSE store
         /\ run' = [run EXCEPT
               ![r].s3Key = s3Key,
               ![r].ops = Append(@, [op |-> "put", key |-> s3Key, ok |-> ok]),
               ![r].pc = AfterUpload(ok),
               ![r].err = IF ok THEN @ ELSE "upload"]
    /\ UNCHANGED now

\* ------------------------------------------------------------ cleanupOldBackups
\* bucket.list({ prefix, maxKeys }): the first maxKeys objects in key order.
ListObjects(S) == SubSeq(Ascending(S), 1, Min(Cardinality(S), MaxKeys))

\* obj.key.endsWith(".sql.gz")
EndsWithSqlGz(obj) == obj.gz

\* A pass that takes every listed object for a backup.
FilterNothing(contents) == contents

Filter(contents) == SelectSeq(contents, EndsWithSqlGz)

\* contents.sort((a, b) => a.key.localeCompare(b.key))
\* An insertion with the comparison turned round: (a, b) => b.key.localeCompare(a.key)
RECURSIVE InsertNewestFirst(_, _)
InsertNewestFirst(obj, s) ==
    IF s = <<>> THEN <<obj>>
    ELSE IF KeyLess(obj, s[1]) THEN <<s[1]>> \o InsertNewestFirst(obj, Tail(s))
    ELSE <<obj>> \o s

RECURSIVE Insert(_, _)
Insert(obj, s) ==
    IF s = <<>> THEN <<obj>>
    ELSE IF KeyLess(s[1], obj) THEN <<s[1]>> \o Insert(obj, Tail(s))
    ELSE <<obj>> \o s

RECURSIVE Sort(_)
Sort(s) == IF s = <<>> THEN <<>> ELSE Insert(s[1], Sort(Tail(s)))

\* Array.prototype.slice: a negative index counts from the end.
RelIndex(j, len) == IF j < 0 THEN Max(len + j, 0) ELSE Min(j, len)

Slice(s, start, end) ==
    LET from == RelIndex(start, Len(s))
        to == RelIndex(end, Len(s))
    IN IF to <= from THEN <<>> ELSE SubSeq(s, from + 1, to)

\* if (contents.length <= maxCount) return
WithinLimit(contents, maxCount) == Len(contents) <= maxCount

\* A slice that keeps the oldest backups and takes the newest.
ToDeleteNewest(contents, maxCount) ==
    LET sorted == Sort(Filter(contents))
    IN Slice(sorted, maxCount, Len(sorted))

\* A slice that takes one object too many.
ToDeleteOneMore(contents, maxCount) ==
    LET sorted == Sort(Filter(contents))
    IN Slice(sorted, 0, Len(sorted) - maxCount + 1)

\* sorted.slice(0, sorted.length - maxCount)
ToDelete(contents, maxCount) ==
    LET sorted == Sort(Filter(contents))
    IN Slice(sorted, 0, Len(sorted) - maxCount)

\* await bucket.list(...), then everything up to the first delete.
ListCall(r) ==
    /\ run[r].pc = "list"
    /\ \/ run' = [run EXCEPT ![r].pc = "cleanup_threw",
                             ![r].ops = Append(@, [op |-> "list", key |-> NoKey, ok |-> FALSE])]
       \/ LET contents == ListObjects(store)
              toDelete == IF WithinLimit(contents, run[r].maxCount) THEN <<>>
                          ELSE ToDelete(contents, run[r].maxCount)
          IN run' = [run EXCEPT
               ![r].before = store,
               ![r].contents = contents,
               ![r].toDelete = toDelete,
               ![r].i = 1,
               ![r].ops = Append(@, [op |-> "list", key |-> NoKey, ok |-> TRUE]),
               ![r].pc = IF toDelete = <<>> THEN "cleanup_returned" ELSE "delete"]
    /\ UNCHANGED <<now, store>>

\* A loop without the try/catch around the delete.
AfterDeleteAbortOnError(r, ok) ==
    IF ~ok THEN "cleanup_threw"
    ELSE IF run[r].i = Len(run[r].toDelete) THEN "cleanup_returned" ELSE "delete"

\* The pc after the delete of toDelete[i]: a failed delete is logged, and the
\* loop goes on.
AfterDelete(r, ok) ==
    IF run[r].i = Len(run[r].toDelete) THEN "cleanup_returned" ELSE "delete"

\* for (const obj of toDelete) { try { await bucket.delete(obj.key) } catch {} }
DeleteStep(r) ==
    /\ run[r].pc = "delete"
    /\ LET key == run[r].toDelete[run[r].i] IN
       \E ok \in BOOLEAN :
         /\ store' = IF ok THEN store \ {key} ELSE store
         /\ run' = [run EXCEPT
               ![r].i = @ + 1,
               ![r].ops = Append(@, [op |-> "delete", key |-> key, ok |-> ok]),
               ![r].pc = AfterDelete(r, ok)]
    /\ UNCHANGED now

\* ------------------------------------------------------------------------ main
\* loadConfig(): throws when a required variable is missing.
LoadConfig(r) ==
    /\ run[r].pc = "main"
    /\ \E valid \in BOOLEAN :
         run' = [run EXCEPT ![r].pc = IF valid THEN "wait" ELSE "threw",
                            ![r].err = IF valid THEN @ ELSE "config"]
    /\ UNCHANGED <<now, store>>

\* A main that never gets past its cleanup.
AfterCleanupHang(pc) == pc

\* A main without the try/catch around the cleanup.
AfterCleanupRethrow(pc) == IF pc = "cleanup_threw" THEN "threw" ELSE "returned"

\* try { await cleanupOldBackups(...) } catch (err) { logError(...) }
AfterCleanup(pc) == "returned"

MainAfterCleanup(r) ==
    /\ run[r].pc \in {"cleanup_returned", "cleanup_threw"}
    /\ run' = [run EXCEPT ![r].pc = AfterCleanup(run[r].pc)]
    /\ UNCHANGED <<now, store>>

\* An entry point whose catch handler exits with code 0.
EntryPointExitZero(r) ==
    /\ run[r].pc \in {"returned", "threw"}
    /\ run' = [run EXCEPT ![r].pc = "exited", ![r].exitCode = 0]
    /\ UNCHANGED <<now, store>>

\* main().then(() => process.exit(0)).catch((err) => process.exit(1))
EntryPoint(r) ==
    /\ run[r].pc \in {"returned", "threw"}
    /\ run' = [run EXCEPT ![r].pc = "exited",
                          ![r].exitCode = IF run[r].pc = "returned" THEN 0 ELSE 1]
    /\ UNCHANGED <<now, store>>

\* ------------------------------------------------------------- specifications
NewRun(pc, maxCount, timeoutSeconds) ==
    [pc |-> pc, maxCount |-> maxCount, timeoutSeconds |-> timeoutSeconds,
     deadline |-> 0, delay |-> 0, attempt |-> 0, startTime |-> 0,
     sql |-> FALSE, open |-> 0, leaked |-> 0,
     after |-> "none", busy |-> 0, sleeps |-> 0,
     lastSleep |-> [delay |-> 0, remaining |-> 0, ms |-> 0],
     databaseUrl |-> PlainLocator, argv |-> <<>>,
     dumpData |-> -1, s3Key |-> NoKey,
     before |-> {}, contents |-> <<>>, toDelete |-> <<>>, i |-> 0,
     ops |-> <<>>, err |-> "none", exitCode |-> -1]

\* The stores over the key ranks R: each rank holds no object, a backup or an
\* unrelated object.
Stores(R) ==
    {{[ts |-> t, gz |-> (f[t] = "gz")] : t \in {u \in R : f[u] # "none"}} :
        f \in [R -> {"none", "gz", "other"}]}

\* One run of main.
Init ==
    /\ now = StartTime
    /\ store \in Stores((1..(MaxOld - 1)) \cup {FarFuture})
    /\ \E maxCount \in -1..MaxRetention, timeoutSeconds \in RunTimeouts :
         run = [r \in Runs |-> IF r = 1 THEN NewRun("main", maxCount, timeoutSeconds)
                               ELSE NewRun("off", maxCount, timeoutSeconds)]

Next ==
    \E r \in Runs :
        \/ LoadConfig(r)
        \/ WaitForPostgres(r)
        \/ LoopCheck(r)
        \/ Probe(r)
        \/ Sleep(r)
        \/ Close(r)
        \/ RunPgDump(r)
        \/ UploadToS3(r)
        \/ ListCall(r)
        \/ DeleteStep(r)
        \/ MainAfterCleanup(r)
        \/ EntryPoint(r)

Spec == Init /\ [][Next]_vars

\* waitForPostgres on its own.
InitProber ==
    /\ now = StartTime
    /\ store = {}
    /\ \E timeoutSeconds \in ProberTimeouts :
         run = [r \in Runs |-> IF r = 1 THEN NewRun("wait", 0, timeoutSeconds)
                               ELSE NewRun("off", 0, timeoutSeconds)]

NextProber ==
    \E r \in Runs :
        \/ WaitForPostgres(r)
        \/ LoopCheck(r)
        \/ Probe(r)
        \/ Sleep(r)
        \/ Close(r)

SpecProber == InitProber /\ [][NextProber]_vars

\* cleanupOldBackups called twice in succession on one store.
InitReconcile ==
    /\ now = StartTime
    /\ store \in Stores((1..MaxOld) \cup {FarFuture})
    /\ \E maxCount \in -1..MaxRetention :
         run = [r \in Runs |-> IF r = 1 THEN NewRun("list", maxCount, 0)
                               ELSE NewRun("off", maxCount, 0)]

SecondPass ==
    /\ run[1].pc \in {"cleanup_returned", "cleanup_threw"}
    /\ run[2].pc = "off"
    /\ run' = [run EXCEPT ![2].pc = "list"]
    /\ UNCHANGED <<now, store>>

NextReconcile ==
    \/ \E r \in Runs : ListCall(r) \/ DeleteStep(r)
    \/ SecondPass

SpecReconcile == InitReconcile /\ [][NextReconcile]_vars

\* ------------------------------------------------------- crash and rerun
\* The process of run r is killed at one of its awaits: nothing of its memory
\* is left (the log of its calls is kept for the properties).
Kill(r) ==
    /\ run[r].pc \notin {"off", "exited", "killed"}
    /\ run' = [run EXCEPT ![r] =
                 [NewRun("killed", run[r].maxCount, run[r].timeoutSeconds)
                     EXCEPT !.ops = run[r].ops]]
    /\ UNCHANGED <<now, store>>

\* The scheduler starts the next run, with the configuration of the killed one.
Rerun ==
    /\ run[1].pc = "killed"
    /\ run[2].pc = "off"
    /\ run' = [run EXCEPT ![2] = NewRun("main", run[1].maxCount, run[1].timeoutSeconds)]
    /\ UNCHANGED <<now, store>>

\* The stores over the key ranks R that hold backups only.
BackupStores(R) == {S \in Stores(R) : \A o \in S : o.gz}

InitCrash ==
    /\ now = StartTime
    /\ store \in BackupStores(1..(MaxOld - 2))
    /\ \E maxCount \in -1..MaxRetention :
         run = [r \in Runs |-> IF r = 1 THEN NewRun("main", maxCount, 1)
                                        ELSE NewRun("off", maxCount, 1)]

NextCrash ==
    \/ \E r \in Runs :
         \/ LoadConfig(r) \/ WaitForPostgres(r) \/ LoopCheck(r) \/ Probe(r)
         \/ Sleep(r) \/ Close(r) \/ RunPgDump(r) \/ UploadToS3(r)
         \/ ListCall(r) \/ DeleteStep(r) \/ MainAfterCleanup(r) \/ EntryPoint(r)
    \/ Kill(1)
    \/ Rerun

SpecCrash == InitCrash /\ [][NextCrash]_vars

\* ---------------------------------------------------------------- dump alone
InitDump ==
    /\ now = StartTime
    /\ store = {}
    /\ \E databaseUrl \in Locators :
         run = [r \in Runs |->
                  [NewRun(IF r = 1 THEN "dump" ELSE "off", MaxRetention, 1)
                      EXCEPT !.databaseUrl = databaseUrl]]

NextDump == \E r \in Runs : RunPgDump(r)

SpecDump == InitDump /\ [][NextDump]_vars

\* ------------------------------------------------------------------ keys alone
\* What the model's time 0 may stand for: instants just before a digit of the
\* timestamp carries over.
Epochs ==
    { [day |-> 10956, ms |-> 86399998],     \* 1999-12-31T23:59:59.998Z
      [day |-> 20759, ms |-> 35999998],     \* 2026-11-02T09:59:59.998Z
      [day |-> 20759, ms |-> 43200008],     \* 2026-11-02T12:00:00.008Z
      [day |-> 20759, ms |-> 43200098],     \* 2026-11-02T12:00:00.098Z
      [day |-> 19780, ms |-> 86399998],     \* 2024-02-27T23:59:59.998Z
      [day |-> 19415, ms |-> 86399998],     \* 2023-02-27T23:59:59.998Z
      [day |-> 20725, ms |-> 86399998],     \* 2026-09-29T23:59:59.998Z
      [day |-> 20764, ms |-> 86399998],     \* 2026-11-07T23:59:59.998Z
      [day |-> -354287, ms |-> 86399998],   \* 0999-12-30T23:59:59.998Z
      [day |-> -1, ms |-> 86399998],        \* 1969-12-31T23:59:59.998Z
      [day |-> 2932895, ms |-> 86399998] }  \* 9999-12-30T23:59:59.998Z

\* Time passes between two calls of generateS3Key: a millisecond, or a day.
TickMs == {1, 24 * 3600 * 1000}

Tick ==
    /\ \E d \in TickMs :
         /\ (now + d) \div (24 * 3600 * 1000) <= MaxDayTicks
         /\ (now + d) % (24 * 3600 * 1000) <= MaxMsTicks
         /\ now' = now + d
    /\ UNCHANGED <<store, run>>

InitKeys ==
    /\ now = 0
    /\ store = {}
    /\ run = [r \in Runs |-> NewRun("upload", MaxRetention, 1)]

NextKeys == (\E r \in Runs : UploadToS3(r)) \/ Tick

SpecKeys == InitKeys /\ [][NextKeys]_vars

\* ------------------------------------------------------------- two runs at once
\* A millisecond passes while the runs wait for the store.
Elapse ==
    /\ now < StartTime + MaxOverlapMs
    /\ now' = now + 1
    /\ UNCHANGED <<store, run>>

\* Both runs have their dump and are about to put it.
InitOverlap ==
    /\ now = StartTime
    /\ store \in Stores(1..(MaxOld - 2))
    /\ \E maxCount \in 0..(MaxRetention - 2) :
         run = [r \in Runs |-> [NewRun("upload", maxCount, 1) EXCEPT !.dumpData = 1]]

NextOverlap ==
    \/ \E r \in Runs :
         \/ UploadToS3(r) \/ ListCall(r) \/ DeleteStep(r)
         \/ MainAfterCleanup(r) \/ EntryPoint(r)
    \/ Elapse

SpecOverlap == InitOverlap /\ [][NextOverlap]_vars

\* ------------------------------------------------------------------- fair runs
\* One step of run r: the code up to its next await.
RunStep(r) ==
    \/ LoadConfig(r) \/ WaitForPostgres(r) \/ LoopCheck(r) \/ Probe(r)
    \/ Sleep(r) \/ Close(r) \/ RunPgDump(r) \/ UploadToS3(r)
    \/ ListCall(r) \/ DeleteStep(r) \/ MainAfterCleanup(r) \/ EntryPoint(r)

\* PG_CONNECT_TIMEOUT values of a fair run: negative, zero, and two that let
\* the prober sleep.
LiveTimeouts == {-1, 0, 1, 3}

InitLive ==
    /\ now = StartTime
    /\ store \in Stores(1..(MaxOld - 3))
    /\ \E maxCount \in 0..(MaxRetention - 3), timeoutSeconds \in LiveTimeouts :
         run = [r \in Runs |-> IF r = 1 THEN NewRun("main", maxCount, timeoutSeconds)
                                        ELSE NewRun("off", maxCount, timeoutSeconds)]

NextLive == \E r \in Runs : RunStep(r)

\* Every call a run awaits returns or fails in finite time, and the event loop
\* then runs the code after it: a run that can take a step takes it.
SpecLive == InitLive /\ [][NextLive]_vars /\ \A r \in Runs : WF_vars(RunStep(r))

\* ------------------------------------------------------------------ properties
OpsOf(r, op) == SelectSeq(run[r].ops, LAMBDA e : e.op = op)

Did(r, op) == OpsOf(r, op) # <<>>

\* The run's put, list or dump that succeeded, if any.
Succeeded(r, op) == \E j \in DOMAIN run[r].ops : run[r].ops[j].op = op /\ run[r].ops[j].ok

\* The keys the pass tried to delete, in the order of the attempts.
Attempted(r) == [j \in DOMAIN OpsOf(r, "delete") |-> OpsOf(r, "delete")[j].key]

\* The keys the pass deleted.
Deleted(r) == {e.key : e \in {x \in Range(run[r].ops) : x.op = "delete" /\ x.ok}}

AllDeletesOk(r) == \A e \in Range(run[r].ops) : e.op = "delete" => e.ok

Finished(r) == run[r].pc = "exited"

\* C1: in every run, each list call and each delete comes after a put of this
\* run's own backup object that completed successfully.
C1_PutBeforeCleanup ==
    \A r \in Runs : \A j \in DOMAIN run[r].ops :
        run[r].ops[j].op \in {"list", "delete"} =>
            \E k \in 1..(j - 1) :
                /\ run[r].ops[k].op = "put"
                /\ run[r].ops[k].ok
                /\ run[r].ops[k].key = run[r].s3Key
                /\ run[r].s3Key # NoKey

C1_Witness ==
    \E r \in Runs : Finished(r) /\ Deleted(r) # {} /\ ~AllDeletesOk(r)

\* C2: once the probe, a non-empty dump and the put have succeeded, the run
\* never fails: it raises no error and, when it exits, exits with code 0,
\* whether the list call fails or any or all of the deletes fail.
C2_CleanupNeverFailsRun ==
    \A r \in Runs : Succeeded(r, "put") =>
        /\ run[r].pc # "threw"
        /\ run[r].err = "none"
        /\ run[r].exitCode \in {-1, 0}
        /\ Finished(r) => run[r].exitCode = 0

\* A run that exited after a failed list call, or after deletes that all failed.
C2_Witness ==
    \E r \in Runs :
        /\ Finished(r)
        /\ run[r].exitCode = 0
        /\ Len(OpsOf(r, "delete")) >= 2
        /\ Deleted(r) = {}

\* C3: a fatal failure of a stage ends the run with a non-zero exit code, and
\* no operation of a later stage is performed: no dump after a probe timeout,
\* no put after a failed or empty dump, no list or delete after a failed put.
C3_FatalAborts ==
    \A r \in Runs :
        /\ run[r].err # "none" => run[r].pc \in {"threw", "exited"}
        /\ (run[r].err # "none" /\ Finished(r)) => run[r].exitCode # 0
        /\ run[r].err \in {"config", "timeout"} => run[r].ops = <<>>
        /\ run[r].err \in {"dump", "empty"} =>
              (Len(run[r].ops) = 1 /\ run[r].ops[1].op = "dump")
        /\ run[r].err = "upload" =>
              (~Did(r, "list") /\ ~Did(r, "delete") /\ Len(OpsOf(r, "put")) = 1)
        /\ \A j \in DOMAIN run[r].ops :
              (run[r].ops[j].op \in {"dump", "put"} /\ ~run[r].ops[j].ok) =>
                  (j = Len(run[r].ops) /\ run[r].err # "none")

\* A run that exited with a failure after its put failed.
C3_Witness ==
    \E r \in Runs :
        /\ Finished(r)
        /\ run[r].exitCode = 1
        /\ run[r].err = "upload"
        /\ Did(r, "put")

\* The backups of a listing, oldest first.
ListedBackups(r) == Ascending({o \in Range(run[r].contents) : o.gz})

\* C4 (as stated): a pass attempts at most count - maxCount deletes, count being
\* the number of listed objects with the suffix .sql.gz, and the keys it
\* attempts are the smallest of them, in ascending order.
C4_AtMostExcessOldestFirst ==
    \A r \in Runs : Succeeded(r, "list") =>
        /\ Len(Attempted(r)) <= Max(Len(ListedBackups(r)) - run[r].maxCount, 0)
        /\ Attempted(r) = SubSeq(ListedBackups(r), 1, Len(Attempted(r)))

\* The backups under the prefix when the pass listed it.
BackupsBefore(r) == {o \in run[r].before : o.gz}

\* The backups the pass left.
Remaining(r) == BackupsBefore(r) \ Deleted(r)

DeletedExactlyTheOldest(r) ==
    /\ Deleted(r) \subseteq BackupsBefore(r)
    /\ Cardinality(Deleted(r)) = Cardinality(BackupsBefore(r)) - run[r].maxCount
    /\ Cardinality(Remaining(r)) = run[r].maxCount
    /\ \A d \in Deleted(r), k \in Remaining(r) : KeyLess(d, k)

PassDone(r) == run[r].pc = "cleanup_returned" /\ Succeeded(r, "list")

\* C5: when the backups under the prefix are more than maxCount and no more
\* than the list cap, and every delete succeeds, a pass deletes exactly the
\* oldest count - maxCount backups and leaves the maxCount newest (maxCount is
\* read as a count: a negative maxCount leaves nothing to state).
C5_ExactlyTheOldestDeleted ==
    \A r \in Runs :
        ( /\ PassDone(r)
          /\ AllDeletesOk(r)
          /\ run[r].maxCount >= 0
          /\ Cardinality(BackupsBefore(r)) > run[r].maxCount
          /\ Cardinality(BackupsBefore(r)) <= MaxKeys )
        => DeletedExactlyTheOldest(r)

\* The same holds of every pass whose listing is whole: the objects under the
\* prefix, backups and others together, are no more than the list cap.
ExactlyTheOldestDeletedOfWholeListing ==
    \A r \in Runs :
        ( /\ PassDone(r)
          /\ AllDeletesOk(r)
          /\ run[r].maxCount >= 0
          /\ Cardinality(BackupsBefore(r)) > run[r].maxCount
          /\ Cardinality(run[r].before) <= MaxKeys )
        => DeletedExactlyTheOldest(r)

\* C6: the second of two passes in succession attempts no delete, the store
\* having answered the first pass's list call and each of its deletes.
C6_Idempotent ==
    (PassDone(1) /\ AllDeletesOk(1)) => ~Did(2, "delete")

\* The same holds when the first pass's listing is whole.
IdempotentOfWholeListing ==
    (PassDone(1) /\ AllDeletesOk(1) /\ Cardinality(run[1].before) <= MaxKeys)
    => ~Did(2, "delete")

\* C7: a failed delete does not stop the pass: the deletes attempted are the
\* selected objects in their order, all of them once the pass has returned,
\* and a pass that has listed the prefix raises no error.
C7_FailedDeleteDoesNotStop ==
    \A r \in Runs : Succeeded(r, "list") =>
        /\ run[r].pc \in {"delete", "cleanup_returned", "returned", "exited"}
        /\ Attempted(r) = SubSeq(run[r].toDelete, 1, Len(Attempted(r)))
        /\ run[r].pc # "delete" => Attempted(r) = run[r].toDelete

\* A pass that returned after its first delete failed and a later one succeeded.
C7_Witness ==
    \E r \in Runs :
        /\ PassDone(r)
        /\ Len(OpsOf(r, "delete")) >= 2
        /\ ~OpsOf(r, "delete")[1].ok
        /\ OpsOf(r, "delete")[2].ok

TimedOut(r) == run[r].pc = "threw" /\ run[r].err = "timeout"

\* C8 (as stated): for timeoutSeconds > 0 the prober fails no earlier than
\* timeoutSeconds and no later than timeoutSeconds + maxDelay after its start.
C8_Original ==
    \A r \in Runs : (TimedOut(r) /\ run[r].timeoutSeconds > 0) =>
        /\ now - run[r].startTime >= run[r].timeoutSeconds * 1000
        /\ now - run[r].startTime <= run[r].timeoutSeconds * 1000 + 30000

\* C8 (amended): for timeoutSeconds > 0 the prober fails no earlier than
\* timeoutSeconds after its start, and passes the deadline by no more than the
\* time its last iteration spent in the probe attempt, in the close and in the
\* timer's overshoot: a sleep is never asked to pass the deadline.
C8_FailsAtDeadline ==
    \A r \in Runs : (TimedOut(r) /\ run[r].timeoutSeconds > 0) =>
        /\ now - run[r].startTime >= run[r].timeoutSeconds * 1000
        /\ now - run[r].startTime <= run[r].timeoutSeconds * 1000 + run[r].busy

\* The prober timed out after sleeping to the deadline, with nothing else
\* taking time in its last iteration.
C8_Witness ==
    \E r \in Runs :
        /\ TimedOut(r)
        /\ run[r].timeoutSeconds = 70
        /\ run[r].sleeps >= 6
        /\ run[r].busy = 0
        /\ now = run[r].deadline

InProber(r) == run[r].pc \in {"loop", "try", "sleep", "finally"}

\* C9: the delay held before the i-th sleep is min(2^i * 1s, 30s), so the delays
\* never decrease and never pass 30s; each sleep asked for is the least of that
\* delay, the time left to the deadline, and 30s.
C9_Backoff ==
    \A r \in Runs :
        /\ InProber(r) => run[r].delay = Min(Pow2(run[r].sleeps) * 1000, 30000)
        /\ run[r].sleeps > 0 =>
              /\ run[r].lastSleep.delay = Min(Pow2(run[r].sleeps - 1) * 1000, 30000)
              /\ run[r].lastSleep.delay <= run[r].delay
              /\ run[r].lastSleep.ms <= run[r].lastSleep.delay
              /\ run[r].lastSleep.ms <= run[r].lastSleep.remaining
              /\ run[r].lastSleep.ms <= 30000
              /\ run[r].lastSleep.ms \in
                    {run[r].lastSleep.delay, run[r].lastSleep.remaining, 30000}

\* The seventh sleep, asked for with the delay at its cap.
C9_Witness ==
    \E r \in Runs :
        /\ InProber(r)
        /\ run[r].sleeps = 7
        /\ run[r].lastSleep.delay = 30000
        /\ run[r].lastSleep.ms < 30000

\* C10: a dump of zero bytes from a pipeline that reported success is fatal:
\* the run raises the empty-output error, exits with a non-zero code, and
\* neither puts an object nor lists or deletes any.
C10_EmptyDumpFatal ==
    \A r \in Runs : run[r].dumpData = 0 =>
        /\ run[r].pc \in {"threw", "exited"}
        /\ run[r].exitCode \in {-1, 1}
        /\ Finished(r) => run[r].exitCode = 1
        /\ ~Did(r, "put") /\ ~Did(r, "list") /\ ~Did(r, "delete")
        /\ run[r].s3Key = NoKey

C10_Witness ==
    \E r \in Runs :
        /\ Finished(r)
        /\ run[r].dumpData = 0
        /\ Succeeded(r, "dump")
        /\ run[r].exitCode = 1

\* C11: when the backups under the prefix are more than the list cap and every
\* delete of a pass succeeds, the pass leaves at most maxCount backups or it
\* signals the truncation (the one signal a pass has is the error it raises).
C11_TruncationNotSilent ==
    \A r \in Runs :
        ( /\ run[r].pc \in {"cleanup_returned", "cleanup_threw"}
          /\ Succeeded(r, "list")
          /\ AllDeletesOk(r)
          /\ Cardinality(BackupsBefore(r)) > MaxKeys )
        => \/ Cardinality(Remaining(r)) <= run[r].maxCount
           \/ run[r].pc = "cleanup_threw"

\* C15: a pass attempts no delete when the listed objects with the suffix
\* .sql.gz are at most maxCount, whatever else the listing holds.
C15_NoOpWithinRetention ==
    \A r \in Runs :
        (Succeeded(r, "list") /\ Len(ListedBackups(r)) <= run[r].maxCount)
        => (run[r].toDelete = <<>> /\ ~Did(r, "delete"))

\* C17: a run invokes the dump at most once and attempts the put at most once,
\* also when one of them fails.
C17_NoRetryOfDumpOrPut ==
    \A r \in Runs :
        /\ Len(OpsOf(r, "dump")) <= 1
        /\ Len(OpsOf(r, "put")) <= 1

\* A run that exited after its one put failed.
C17_Witness ==
    \E r \in Runs :
        /\ Finished(r)
        /\ Len(OpsOf(r, "dump")) = 1
        /\ Len(OpsOf(r, "put")) = 1
        /\ ~Succeeded(r, "put")

\* C18: for every timeoutSeconds, zero and negative values too, the prober
\* raises its timeout error only after at least one probe attempt.
C18_AttemptBeforeTimeout ==
    \A r \in Runs : TimedOut(r) => run[r].attempt >= 1

\* The objects under the prefix that are no backups.
Unrelated(S) == {o \in S : ~o.gz}

\* C19: a pass attempts to delete no object whose key lacks the suffix .sql.gz,
\* and every unrelated object under the prefix is still there after the pass.
C19_UnrelatedObjectsKept ==
    \A r \in Runs :
        /\ \A e \in Range(run[r].ops) : e.op = "delete" => e.key.gz
        /\ \A j \in DOMAIN run[r].toDelete : run[r].toDelete[j].gz
        /\ Succeeded(r, "list") => Unrelated(run[r].before) \subseteq store

\* A pass that deleted a backup whose key sorts after an unrelated object's.
C19_Witness ==
    \E r \in Runs :
        /\ PassDone(r)
        /\ \E d \in Deleted(r), o \in Unrelated(run[r].before) : KeyLess(o, d)
        /\ \E d \in Deleted(r), o \in Unrelated(run[r].before) : KeyLess(d, o)

\* The run's own object is the newest backup under the prefix when it lists.
OwnKeyNewest(r) ==
    /\ run[r].s3Key \in run[r].before
    /\ \A o \in BackupsBefore(r) : o = run[r].s3Key \/ KeyLess(o, run[r].s3Key)

\* C20: for maxCount >= 1, the retention step of a run never attempts to delete
\* the object the run has put, when that object's key is the greatest backup
\* key under the prefix, whatever else the listing holds.
C20_OwnBackupKept ==
    \A r \in Runs :
        (Succeeded(r, "list") /\ run[r].maxCount >= 1 /\ OwnKeyNewest(r))
        => /\ run[r].s3Key \notin Range(run[r].toDelete)
           /\ run[r].s3Key \notin Range(Attempted(r))
           /\ run[r].s3Key \in store

\* A run with retention 1 that deleted every backup but its own, next to an
\* unrelated object.
C20_Witness ==
    \E r \in Runs :
        /\ Finished(r)
        /\ run[r].maxCount = 1
        /\ OwnKeyNewest(r)
        /\ Cardinality(Deleted(r)) >= 2
        /\ Unrelated(run[r].before) # {}
        /\ BackupsBefore(r) \ Deleted(r) = {run[r].s3Key}

\* The prober of run r has left waitForPostgres, by its return or its throw.
LeftProber(r) == run[r].pc \notin {"off", "main", "wait", "loop", "try", "sleep", "finally"}

\* C16: at every point of waitForPostgres at most one probe connection is
\* open, and none is open once the prober has returned or thrown, also when a
\* close throws.
C16_AtMostOneOpen ==
    \A r \in Runs :
        /\ run[r].open <= 1
        /\ LeftProber(r) => run[r].open = 0

\* C16, amended: close is called on the connection of attempt k before attempt
\* k+1 opens and on every way out of the prober, so the connections open are
\* the current attempt's and those whose close threw without releasing them;
\* with no such close at most one connection is open.
C16_CloseCalledOnEveryPath ==
    \A r \in Runs :
        /\ run[r].open = run[r].leaked + (IF run[r].sql THEN 1 ELSE 0)
        /\ run[r].pc \in {"sleep", "finally"} \/ ~run[r].sql
        /\ (run[r].pc \in {"loop", "try"} \/ LeftProber(r)) => run[r].open = run[r].leaked
        /\ run[r].leaked = 0 => run[r].open <= 1

\* A prober that timed out after two attempts at least, one of whose closes
\* threw, and one whose every close returned.
C16_Witness ==
    \E r \in Runs :
        /\ TimedOut(r)
        /\ run[r].attempt >= 2
        /\ run[r].leaked = 1
        /\ run[r].open = 1

\* The n newest keys of S (all of S when it has fewer, none for n <= 0).
Newest(S, n) == {k \in S : Cardinality({o \in S : KeyLess(k, o)}) < n}

\* What run 2 would have found under the prefix had run 1 deleted nothing.
HadNoCleanup == run[2].before \cup Deleted(1)

\* Run 1 was killed and run 2, started after it, has finished its retention
\* pass with its list and all its deletes answered well.
RerunCompleted ==
    /\ run[1].pc = "killed"
    /\ run[2].pc \in {"cleanup_returned", "returned", "exited"}
    /\ Succeeded(2, "list")
    /\ AllDeletesOk(2)

\* C12: when run 1 is killed at any point and a later run completes with all
\* its deletes succeeding, the store holds exactly the maxCount newest backups,
\* as if run 1 had never started its cleanup (more than maxCount backups, every
\* object under the prefix a backup, and their number within the list cap).
C12_RerunAfterCrash ==
    ( /\ RerunCompleted
      /\ \A o \in HadNoCleanup : o.gz
      /\ Cardinality(run[2].before) <= MaxKeys
      /\ Cardinality(HadNoCleanup) > run[2].maxCount )
    => store = Newest(HadNoCleanup, run[2].maxCount)

\* Run 1 was killed between two deletes, and run 2 deleted the rest: a backup
\* older than the one run 1 had put.
C12_Witness ==
    /\ RerunCompleted
    /\ run[2].pc = "exited"
    /\ run[2].maxCount >= 1
    /\ \A o \in HadNoCleanup : o.gz
    /\ Deleted(1) # {} /\ Deleted(2) # {}
    /\ Succeeded(1, "put")
    /\ \E d \in Deleted(2) : KeyLess(d, OpsOf(1, "put")[1].key)
    /\ Cardinality(store) = run[2].maxCount

\* C14: pg_dump receives the locator as its one argument, character for
\* character, whatever characters the locator holds; no part of it is read as
\* shell syntax.
C14_LocatorIsOneArgument ==
    \A r \in Runs : Did(r, "dump") => run[r].argv = <<run[r].databaseUrl>>

\* The year of the key made at model time t is written with four digits.
FourDigitYear(epoch, t) == CivilFromDays(Instant(epoch, t).day).year \in 0..9999

\* C13: of two keys made by generateS3Key at the instants t1 < t2 (years of
\* four digits), the first is the lexically smaller, and the order the
\* retention pass sorts by (localeCompare) is the order of the instants.
C13_KeysTimeOrdered ==
    \A e \in Epochs : \A a, b \in store :
        (a.gz /\ b.gz /\ FourDigitYear(e, a.ts) /\ FourDigitYear(e, b.ts))
        => /\ a.ts < b.ts => LexLess(KeyText(e, a.ts), KeyText(e, b.ts))
           /\ a.ts < b.ts <=> localeCompare(KeyText(e, a.ts), KeyText(e, b.ts)) < 0
           /\ KeyLess(a, b) <=> localeCompare(KeyText(e, a.ts), KeyText(e, b.ts)) < 0

\* Two runs have put their keys two milliseconds apart, over the turn of a
\* second (and with it of a minute, a day, a month and a year).
C13_Witness ==
    /\ Succeeded(1, "put") /\ Succeeded(2, "put")
    /\ run[1].s3Key.ts = 1
    /\ run[2].s3Key.ts = 3
    /\ {run[1].s3Key, run[2].s3Key} \subseteq store

\* Every backup that has been under the prefix so far.
BackupsSoFar == {o \in store \cup Deleted(1) \cup Deleted(2) : o.gz}

\* Every object that has been under the prefix is a backup, and maxCount >= 1.
OnlyBackups ==
    /\ \A o \in store \cup Deleted(1) \cup Deleted(2) : o.gz
    /\ \A r \in Runs : run[r].maxCount >= 1

\* C21: with two runs at once, every object a backup and maxCount >= 1, no
\* step of either run takes one of the maxCount newest backups out of the
\* store, and the store holds at least min(total, maxCount) backups, the
\* newest ones, at every moment.
C21_OverlapKeepsNewest ==
    /\ [](OnlyBackups =>
            /\ Newest(BackupsSoFar, run[1].maxCount) \subseteq store
            /\ Cardinality(store) >= Min(Cardinality(BackupsSoFar), run[1].maxCount))
    /\ [][OnlyBackups =>
            \A k \in store \ store' : k \notin Newest(store, run[1].maxCount)]_vars

\* Both runs have put their own key, each has listed before the other was
\* done, each has deleted a backup, and the store is down to maxCount.
C21_Witness ==
    /\ OnlyBackups
    /\ Finished(1) /\ Finished(2)
    /\ run[1].s3Key # run[2].s3Key
    /\ run[1].s3Key \in run[2].before /\ run[2].s3Key \in run[1].before
    /\ run[1].toDelete # <<>> /\ run[2].toDelete # <<>>
    /\ Range(run[1].toDelete) \cap Range(run[2].toDelete) # {}
    /\ Cardinality(store) = run[1].maxCount

\* C22: every run terminates: waitForPostgres, once called, returns or throws
\* its timeout error, for every timeoutSeconds, and a started run reaches its
\* exit with code 0 or 1.
C22_Terminates ==
    \A r \in Runs :
        /\ (run[r].pc = "wait") ~> (run[r].pc = "dump" \/ TimedOut(r))
        /\ (run[r].pc = "main") ~> (Finished(r) /\ run[r].exitCode \in {0, 1})

\* A run that exited with code 0 after two probe attempts and a delete.
C22_Witness ==
    \E r \in Runs :
        /\ Finished(r)
        /\ run[r].exitCode = 0
        /\ run[r].attempt >= 2
        /\ Deleted(r) # {}

====
